---------------------------- MODULE Spec2Model ----------------------------
(***************************************************************************)
(* TruthNode: the article verification and reward scoring engine.          *)
(*                                                                         *)
(* The model follows MemStorage (the in-memory store) and the Express      *)
(* handlers that drive it: POST /api/articles, POST /api/whistleblower/    *)
(* submit, POST /api/verifications and POST /api/articles/:id/verify-truth.*)
(* Every handler runs to completion: Node runs one handler's synchronous   *)
(* stretch at a time and the store's awaits resolve without I/O.           *)
(***************************************************************************)
EXTENDS Integers, Sequences, FiniteSets, TLC

(***************************************************************************)
(* JavaScript numbers.  getVerificationScore computes                      *)
(*     Math.round((positiveCount / totalCount) * 100)                      *)
(* in IEEE-754 double arithmetic: the quotient is rounded to 53            *)
(* significant bits, the product is rounded again, and Math.round rounds   *)
(* the result to the nearest integer, halves up.  A positive double is     *)
(* modelled as [bits, exp]: bits is its significand, most significant bit  *)
(* first (bits[1] = 1), and exp is the power of two of bits[1].            *)
(***************************************************************************)
MantissaBits == 53

\* The arithmetic below works on an expansion in chunks of ChunkBits bits, so
\* that every intermediate integer stays below 2^31.
ChunkBits == 18

Bit(b) == IF b THEN 1 ELSE 0

Pow2(n) == 2 ^ n

\* The n-bit binary numeral of v, most significant bit first.
IntBits(v, n) == [i \in 1..n |-> (v \div Pow2(n - i)) % 2]

RECURSIVE BitsToInt(_)
BitsToInt(bits) ==
    IF bits = <<>> THEN 0
    ELSE 2 * BitsToInt(SubSeq(bits, 1, Len(bits) - 1)) + bits[Len(bits)]

\* bits + 1; one bit longer when every bit was 1.
IncBits(bits) ==
    LET zeros == {i \in 1..Len(bits) : bits[i] = 0}
    IN  IF zeros = {} THEN <<1>> \o [i \in 1..Len(bits) |-> 0]
        ELSE LET j == CHOOSE i \in zeros : \A k \in zeros : k <= i
             IN  [i \in 1..Len(bits) |-> IF i < j THEN bits[i] ELSE IF i = j THEN 1 ELSE 0]

\* Round-to-nearest, ties-to-even, of an exact binary expansion to
\* MantissaBits bits.  sticky: the expansion has nonzero bits beyond `bits`.
RoundNearestEven(bits, exp, sticky) ==
    IF Len(bits) <= MantissaBits
    THEN [bits |-> bits \o [i \in 1..(MantissaBits - Len(bits)) |-> 0], exp |-> exp]
    ELSE LET keep  == SubSeq(bits, 1, MantissaBits)
             guard == bits[MantissaBits + 1]
             rest  == sticky \/ \E i \in (MantissaBits + 2)..Len(bits) : bits[i] = 1
             up    == guard = 1 /\ (rest \/ keep[MantissaBits] = 1)
             inc   == IncBits(keep)
         IN  IF ~up THEN [bits |-> keep, exp |-> exp]
             ELSE IF Len(inc) > MantissaBits
                  THEN [bits |-> SubSeq(inc, 1, MantissaBits), exp |-> exp + 1]
                  ELSE [bits |-> inc, exp |-> exp]

\* The next 3 * ChunkBits bits of the binary expansion of r / t (0 <= r < t),
\* and the remainder left after them.
DivBits(r, t) ==
    LET base == Pow2(ChunkBits)
        q1   == (r * base) \div t
        r1   == (r * base) % t
        q2   == (r1 * base) \div t
        r2   == (r1 * base) % t
        q3   == (r2 * base) \div t
        r3   == (r2 * base) % t
    IN  [bits |-> IntBits(q1, ChunkBits) \o IntBits(q2, ChunkBits) \o IntBits(q3, ChunkBits),
         rem  |-> r3]

RECURSIVE Shift(_, _)
\* The least k with p * 2^k >= t (0 < p <= t).
Shift(p, t) == IF p >= t THEN 0 ELSE 1 + Shift(2 * p, t)

\* The double p / t, for integers 0 < p <= t.
DoubleDiv(p, t) ==
    LET k == Shift(p, t)
        q == DivBits(p * Pow2(k) - t, t)
    IN  RoundNearestEven(<<1>> \o q.bits, -k, q.rem # 0)

\* The double x * c, for a positive double x and an integer 64 <= c < 128.
DoubleMul(x, c) ==
    LET base   == Pow2(ChunkBits)
        hiLen  == MantissaBits - 2 * ChunkBits
        hi     == BitsToInt(SubSeq(x.bits, 1, hiLen))
        mid    == BitsToInt(SubSeq(x.bits, hiLen + 1, hiLen + ChunkBits))
        lo     == BitsToInt(SubSeq(x.bits, hiLen + ChunkBits + 1, MantissaBits))
        pl     == lo * c
        pm     == mid * c + pl \div base
        ph     == hi * c + pm \div base
        phLen  == IF ph >= Pow2(hiLen + 6) THEN hiLen + 7 ELSE hiLen + 6
        prod   == IntBits(ph, phLen) \o IntBits(pm % base, ChunkBits)
                      \o IntBits(pl % base, ChunkBits)
    IN  RoundNearestEven(prod, x.exp + (Len(prod) - MantissaBits), FALSE)

\* Math.round of a positive double below 2^52: the integer part, plus one
\* when the fraction is at least one half.
MathRound(x) ==
    IF x.exp < -1 THEN 0
    ELSE IF x.exp = -1 THEN 1
    ELSE BitsToInt(SubSeq(x.bits, 1, x.exp + 1)) + x.bits[x.exp + 2]

\* Math.round((positiveCount / totalCount) * 100), totalCount > 0.
Percent(positiveCount, totalCount) ==
    IF positiveCount = 0 THEN 0
    ELSE MathRound(DoubleMul(DoubleDiv(positiveCount, totalCount), 100))

(***************************************************************************)
(* The store.  `storage` is the MemStorage singleton: its maps and its     *)
(* sequential id counters.  `events` is the list of messages handed to     *)
(* broadcastEvent, oldest first.  `calls` holds the storage calls that are  *)
(* suspended at an await, with their locals.                               *)
(***************************************************************************)
VARIABLES storage, events, calls

vars == <<storage, events, calls>>

\* An object field that holds undefined (a truthScore never computed).
Undefined == -1

userRoles == {"publisher", "journalist", "community"}

evidenceTypes == {"supporting", "contradicting", "contextual"}

\* A type string outside evidenceTypes (the default case of the reward switch).
OtherEvidenceType == "other"

verificationStatuses == {"pending", "verified", "disproven"}

\* insertArticleSchema leaves status optional (the column has a default, which
\* only a database would apply): a request may omit it.
NoStatus == "undefined"

VerifiedCountThreshold == 5
DisprovenCountThreshold == 5
CountPathAuthorReward == 10
VerifierReward == 5
ScoreVerifiedThreshold == 70
ScoreDisprovenThreshold == 30
TruthScoreVerified == 70
TruthScoreDisproven == 30
WhistleblowerReward == 15
RegularReward == 10
NeutralScore == 50
AnonymousAuthorId == 1
SupportingReward == 2
ContradictingReward == 3
ContextualReward == 1
DefaultEvidenceReward == 1

\* new MemStorage() before seedData().
EmptyStorage ==
    [users |-> <<>>, articles |-> <<>>, evidence |-> <<>>, verifications |-> <<>>,
     tokenAwards |-> <<>>, userId |-> 1, articleId |-> 1, evidenceId |-> 1,
     verificationId |-> 1]

createUser(s, role) ==
    [s EXCEPT !.users = @ @@ (s.userId :> [role |-> role, truthTokens |-> 0]),
              !.userId = @ + 1]

updateUserTokens(s, id, tokens) ==
    IF id \notin DOMAIN s.users THEN s
    ELSE [s EXCEPT !.users[id].truthTokens = IF @ # 0 THEN @ + tokens ELSE tokens]

createArticle(s, authorId, status, isWhistleblower) ==
    [s EXCEPT !.articles = @ @@ (s.articleId :>
                  [authorId |-> authorId, status |-> status,
                   isWhistleblower |-> isWhistleblower,
                   verificationCount |-> 0, truthScore |-> Undefined]),
              !.articleId = @ + 1]

\* Mutant: the override also forgets the truthScore.
updateArticleStatus_ClearsScore(s, id, status) ==
    IF id \notin DOMAIN s.articles THEN s
    ELSE [s EXCEPT !.articles[id].status = status,
                   !.articles[id].truthScore = Undefined]

updateArticleStatus(s, id, status) ==
    IF id \notin DOMAIN s.articles THEN s
    ELSE [s EXCEPT !.articles[id].status = status]

updateArticleTruthScore(s, id, score) ==
    IF id \notin DOMAIN s.articles THEN s
    ELSE [s EXCEPT !.articles[id].truthScore = score,
                   !.articles[id].status =
                       IF score >= TruthScoreVerified THEN "verified"
                       ELSE IF score <= TruthScoreDisproven THEN "disproven"
                       ELSE @]

\* Mutant: contradicting evidence is paid like supporting evidence.
calculateTokenReward_NoContradictingBonus(evidenceType) ==
    CASE evidenceType = "supporting"    -> SupportingReward
      [] evidenceType = "contradicting" -> SupportingReward
      [] evidenceType = "contextual"    -> ContextualReward
      [] OTHER                          -> DefaultEvidenceReward

calculateTokenReward(evidenceType) ==
    CASE evidenceType = "supporting"    -> SupportingReward
      [] evidenceType = "contradicting" -> ContradictingReward
      [] evidenceType = "contextual"    -> ContextualReward
      [] OTHER                          -> DefaultEvidenceReward

\* Mutant: stored evidence also raises the article's verificationCount.
createEvidence_CountsAsVerification(s, articleId, userId, type) ==
    LET tokenReward == calculateTokenReward(type)
        stored == [s EXCEPT !.evidence = @ @@ (s.evidenceId :>
                                [articleId |-> articleId, userId |-> userId,
                                 type |-> type, tokenReward |-> tokenReward]),
                            !.evidenceId = @ + 1,
                            !.articles[articleId].verificationCount = @ + 1]
    IN  updateUserTokens(stored, userId, tokenReward)

createEvidence(s, articleId, userId, type) ==
    LET tokenReward == calculateTokenReward(type)
        stored == [s EXCEPT !.evidence = @ @@ (s.evidenceId :>
                                [articleId |-> articleId, userId |-> userId,
                                 type |-> type, tokenReward |-> tokenReward]),
                            !.evidenceId = @ + 1]
    IN  updateUserTokens(stored, userId, tokenReward)

\* The ids of the verification records of an article.
getVerificationsForArticle(s, articleId) ==
    {i \in DOMAIN s.verifications : s.verifications[i].articleId = articleId}

CountWithStatus(s, articleId, status) ==
    Cardinality({i \in getVerificationsForArticle(s, articleId) :
                     s.verifications[i].status = status})

\* Mutant: the verified threshold compared with > instead of >=.
applyCountThresholds_StrictThreshold(s, article, articleId) ==
    LET verifiedCount  == CountWithStatus(s, articleId, "verified")
        disprovenCount == CountWithStatus(s, articleId, "disproven")
    IN  IF verifiedCount > VerifiedCountThreshold /\ article.status # "verified"
        THEN updateUserTokens(updateArticleStatus(s, articleId, "verified"),
                              article.authorId, CountPathAuthorReward)
        ELSE IF disprovenCount >= DisprovenCountThreshold /\ article.status # "disproven"
        THEN updateArticleStatus(s, articleId, "disproven")
        ELSE s

\* Mutant: the verified branch without its status guard.
applyCountThresholds_NoStatusGuard(s, article, articleId) ==
    LET verifiedCount  == CountWithStatus(s, articleId, "verified")
        disprovenCount == CountWithStatus(s, articleId, "disproven")
    IN  IF verifiedCount >= VerifiedCountThreshold
        THEN updateUserTokens(updateArticleStatus(s, articleId, "verified"),
                              article.authorId, CountPathAuthorReward)
        ELSE IF disprovenCount >= DisprovenCountThreshold /\ article.status # "disproven"
        THEN updateArticleStatus(s, articleId, "disproven")
        ELSE s

\* Mutant: the two checks as independent statements.
applyCountThresholds_IndependentChecks(s, article, articleId) ==
    LET verifiedCount  == CountWithStatus(s, articleId, "verified")
        disprovenCount == CountWithStatus(s, articleId, "disproven")
        s1 == IF verifiedCount >= VerifiedCountThreshold /\ article.status # "verified"
              THEN updateUserTokens(updateArticleStatus(s, articleId, "verified"),
                                    article.authorId, CountPathAuthorReward)
              ELSE s
    IN  IF disprovenCount >= DisprovenCountThreshold /\ article.status # "disproven"
        THEN updateArticleStatus(s1, articleId, "disproven")
        ELSE s1

\* The status check of createVerification, on the article as read before the
\* count was written back.
applyCountThresholds(s, article, articleId) ==
    LET verifiedCount  == CountWithStatus(s, articleId, "verified")
        disprovenCount == CountWithStatus(s, articleId, "disproven")
    IN  IF verifiedCount >= VerifiedCountThreshold /\ article.status # "verified"
        THEN updateUserTokens(updateArticleStatus(s, articleId, "verified"),
                              article.authorId, CountPathAuthorReward)
        ELSE IF disprovenCount >= DisprovenCountThreshold /\ article.status # "disproven"
        THEN updateArticleStatus(s, articleId, "disproven")
        ELSE s

\* Mutant: the count is raised only while the article is pending.
countVerification_OnlyPending(s, article, articleId) ==
    IF article.status = "pending"
    THEN [s EXCEPT !.articles[articleId].verificationCount = article.verificationCount + 1]
    ELSE s

\* The write-back of the article as it was read, with its count raised by
\* one.
countVerification(s, article, articleId) ==
    [s EXCEPT !.articles[articleId] =
                  [article EXCEPT !.verificationCount = article.verificationCount + 1]]

\* Mutant: the verifier is paid only for a "verified" record.
createVerification_PaysOnlyVerified(s, articleId, userId, status) ==
    LET s1 == [s EXCEPT !.verifications = @ @@ (s.verificationId :>
                            [articleId |-> articleId, userId |-> userId,
                             status |-> status]),
                        !.verificationId = @ + 1]
        s2 == IF articleId \notin DOMAIN s1.articles THEN s1
              ELSE LET article == s1.articles[articleId]
                   IN  applyCountThresholds(countVerification(s1, article, articleId),
                                            article, articleId)
    IN  IF status = "verified" THEN updateUserTokens(s2, userId, VerifierReward) ELSE s2

createVerification(s, articleId, userId, status) ==
    LET s1 == [s EXCEPT !.verifications = @ @@ (s.verificationId :>
                            [articleId |-> articleId, userId |-> userId,
                             status |-> status]),
                        !.verificationId = @ + 1]
        s2 == IF articleId \notin DOMAIN s1.articles THEN s1
              ELSE LET article == s1.articles[articleId]
                   IN  applyCountThresholds(countVerification(s1, article, articleId),
                                            article, articleId)
    IN  updateUserTokens(s2, userId, VerifierReward)

\* Mutant: the share of verified records is not divided by the total.
getVerificationScore_NoDivision(s, articleId) ==
    LET totalCount    == Cardinality(getVerificationsForArticle(s, articleId))
        positiveCount == CountWithStatus(s, articleId, "verified")
        negativeCount == CountWithStatus(s, articleId, "disproven")
    IN  [totalCount |-> totalCount, positiveCount |-> positiveCount,
         negativeCount |-> negativeCount,
         score |-> IF totalCount > 0 THEN positiveCount * 100
                   ELSE NeutralScore]

getVerificationScore(s, articleId) ==
    LET totalCount    == Cardinality(getVerificationsForArticle(s, articleId))
        positiveCount == CountWithStatus(s, articleId, "verified")
        negativeCount == CountWithStatus(s, articleId, "disproven")
    IN  [totalCount |-> totalCount, positiveCount |-> positiveCount,
         negativeCount |-> negativeCount,
         score |-> IF totalCount > 0 THEN Percent(positiveCount, totalCount)
                   ELSE NeutralScore]

getTokenAwards(s, userId) ==
    IF userId \in DOMAIN s.tokenAwards THEN s.tokenAwards[userId] ELSE <<>>

logTokenAward(s, userId, amount, reason) ==
    LET entry  == [amount |-> amount, reason |-> reason]
        awards == Append(getTokenAwards(s, userId), entry)
        logged == [s EXCEPT !.tokenAwards =
                       [u \in DOMAIN @ \cup {userId} |-> IF u = userId THEN awards ELSE @[u]]]
    IN  updateUserTokens(logged, userId, amount)

\* seedData(): five users, three articles.
SeedStorage ==
    LET u1 == createUser(EmptyStorage, "journalist")
        u2 == createUser(u1, "journalist")
        u3 == createUser(u2, "community")
        u4 == createUser(u3, "community")
        u5 == createUser(u4, "community")
        a1 == createArticle(u5, 1, "verified", FALSE)
        a2 == createArticle(a1, 2, "pending", FALSE)
    IN  createArticle(a2, 1, "verified", TRUE)

(***************************************************************************)
(* The request handlers.  req.user is the session's user: any stored user  *)
(* can log in, and no modelled operation changes a role, so req.user       *)
(* ranges over the stored users.  A handler that answers 4xx changes       *)
(* nothing.                                                                *)
(***************************************************************************)
CanPublish(s, reqUser) ==
    reqUser \in DOMAIN s.users /\ s.users[reqUser].role \in {"publisher", "journalist"}

IsPublisher(s, reqUser) ==
    reqUser \in DOMAIN s.users /\ s.users[reqUser].role = "publisher"

\* POST /api/register
Register(role) ==
    /\ storage' = createUser(storage, role)
    /\ UNCHANGED <<events, calls>>

\* POST /api/articles
PostArticle(reqUser, status, isWhistleblower) ==
    /\ storage' = IF CanPublish(storage, reqUser)
                  THEN createArticle(storage, reqUser, status, isWhistleblower)
                  ELSE storage
    /\ UNCHANGED <<events, calls>>

\* POST /api/whistleblower/submit
WhistleblowerSubmit ==
    /\ storage' = createArticle(storage, AnonymousAuthorId, "pending", TRUE)
    /\ UNCHANGED <<events, calls>>

\* Mutant: the handler without its article lookup.
postVerification_NoArticleCheck(s, reqUser, articleId, status) ==
    IF ~CanPublish(s, reqUser) THEN s
    ELSE createVerification(s, articleId, reqUser, status)

\* POST /api/verifications
postVerification(s, reqUser, articleId, status) ==
    IF ~CanPublish(s, reqUser) THEN s
    ELSE IF articleId \notin DOMAIN s.articles THEN s
    ELSE createVerification(s, articleId, reqUser, status)

PostVerification(reqUser, articleId, status) ==
    /\ storage' = postVerification(storage, reqUser, articleId, status)
    /\ UNCHANGED <<events, calls>>

\* POST /api/evidence: any authenticated user; the body is parsed by
\* insertEvidenceSchema, which admits the three evidenceTypes only.
postEvidence(s, reqUser, articleId, type) ==
    IF reqUser \notin DOMAIN s.users THEN s
    ELSE IF type \notin evidenceTypes THEN s
    ELSE IF articleId \notin DOMAIN s.articles THEN s
    ELSE createEvidence(s, articleId, reqUser, type)

PostEvidence(reqUser, articleId, type) ==
    /\ storage' = postEvidence(storage, reqUser, articleId, type)
    /\ UNCHANGED <<events, calls>>

\* POST /api/rewards/award: publishers only; a falsy userId, amount or reason
\* is refused, as is a userId that names no user.  The mock
\* blockchain.awardTokens returns true.
postAward(s, reqUser, userId, amount, reason) ==
    IF ~IsPublisher(s, reqUser) THEN s
    ELSE IF userId = 0 \/ amount = 0 \/ reason = "" THEN s
    ELSE IF userId \notin DOMAIN s.users THEN s
    ELSE logTokenAward(s, userId, amount, reason)

PostAward(reqUser, userId, amount, reason) ==
    /\ storage' = postAward(storage, reqUser, userId, amount, reason)
    /\ UNCHANGED <<events, calls>>

\* Mutant: every author is paid the regular reward.
markVerified_FlatReward(s, ev, article, id, scoreData) ==
    LET marked == updateArticleTruthScore(updateArticleStatus(s, id, "verified"),
                                          id, scoreData.score)
        paid   == IF article.authorId \in DOMAIN marked.users
                  THEN logTokenAward(marked, article.authorId, RegularReward,
                                     "Article verified")
                  ELSE marked
    IN  [storage |-> paid,
         events  |-> Append(ev, [type |-> "article_verified", articleId |-> id,
                                 score |-> scoreData.score])]

\* verify-truth, score >= 70 and the article not yet verified: mark it,
\* reward the author, broadcast.
markVerified(s, ev, article, id, scoreData) ==
    LET marked      == updateArticleTruthScore(updateArticleStatus(s, id, "verified"),
                                               id, scoreData.score)
        tokenAmount == IF article.isWhistleblower THEN WhistleblowerReward
                       ELSE RegularReward
        paid        == IF article.authorId \in DOMAIN marked.users
                       THEN logTokenAward(marked, article.authorId, tokenAmount,
                                          "Article verified")
                       ELSE marked
    IN  [storage |-> paid,
         events  |-> Append(ev, [type |-> "article_verified", articleId |-> id,
                                 score |-> scoreData.score])]

\* Mutant: the reward block of the verified branch copied into this one.
markDisproven_PaysAuthor(s, ev, article, id, scoreData) ==
    LET marked == updateArticleTruthScore(updateArticleStatus(s, id, "disproven"),
                                          id, scoreData.score)
    IN  [storage |-> logTokenAward(marked, article.authorId, RegularReward,
                                   "Article disproven"),
         events  |-> Append(ev, [type |-> "article_disproven", articleId |-> id,
                                 score |-> scoreData.score])]

\* verify-truth, score <= 30 and the article not yet disproven.
markDisproven(s, ev, article, id, scoreData) ==
    [storage |-> updateArticleTruthScore(updateArticleStatus(s, id, "disproven"),
                                         id, scoreData.score),
     events  |-> Append(ev, [type |-> "article_disproven", articleId |-> id,
                             score |-> scoreData.score])]

\* Mutant: the score is not stored.
keepStatus_NoStore(s, ev, article, id, scoreData) ==
    [storage |-> s, events |-> ev]

\* verify-truth, neither: only the score is stored.
keepStatus(s, ev, article, id, scoreData) ==
    [storage |-> updateArticleTruthScore(s, id, scoreData.score), events |-> ev]

\* Mutant: the verified branch without its status guard.
verifyTruth_NoStatusGuard(s, ev, reqUser, id) ==
    IF ~IsPublisher(s, reqUser) \/ id \notin DOMAIN s.articles
    THEN [storage |-> s, events |-> ev]
    ELSE
    LET article   == s.articles[id]
        scoreData == getVerificationScore(s, id)
    IN  IF scoreData.score >= ScoreVerifiedThreshold
        THEN markVerified(s, ev, article, id, scoreData)
        ELSE IF scoreData.score <= ScoreDisprovenThreshold /\ article.status # "disproven"
        THEN markDisproven(s, ev, article, id, scoreData)
        ELSE keepStatus(s, ev, article, id, scoreData)

\* POST /api/articles/:id/verify-truth: the store and the broadcast list
\* after the handler.
verifyTruth(s, ev, reqUser, id) ==
    IF ~IsPublisher(s, reqUser) \/ id \notin DOMAIN s.articles
    THEN [storage |-> s, events |-> ev]
    ELSE
    LET article   == s.articles[id]
        scoreData == getVerificationScore(s, id)
    IN  IF scoreData.score >= ScoreVerifiedThreshold /\ article.status # "verified"
        THEN markVerified(s, ev, article, id, scoreData)
        ELSE IF scoreData.score <= ScoreDisprovenThreshold /\ article.status # "disproven"
        THEN markDisproven(s, ev, article, id, scoreData)
        ELSE keepStatus(s, ev, article, id, scoreData)

VerifyTruth(reqUser, id) ==
    LET after == verifyTruth(storage, events, reqUser, id)
    IN  /\ storage' = after.storage
        /\ events' = after.events
        /\ UNCHANGED calls

\* The calls of the verified branch that leave the server: the token sink
\* and the notification publisher.
Sinks == {"awardTokens", "broadcastEvent"}

\* Mutant: the catch block restores the store the handler started from.
markVerifiedSinkFailure_RollsBack(s, ev, article, id, scoreData, sink) ==
    [storage |-> s, events |-> ev]

\* The verified branch when the named sink throws: the statements before the
\* throw have run, the catch block answers 500.  blockchain.awardTokens is
\* called only for an author that exists, before logTokenAward; a message
\* whose sending throws was handed to broadcastEvent.
markVerifiedSinkFailure(s, ev, article, id, scoreData, sink) ==
    LET marked == updateArticleTruthScore(updateArticleStatus(s, id, "verified"),
                                          id, scoreData.score)
    IN  IF sink = "awardTokens" /\ article.authorId \in DOMAIN marked.users
        THEN [storage |-> marked, events |-> ev]
        ELSE markVerified(s, ev, article, id, scoreData)

\* verify-truth with a failing sink.
verifyTruthSinkFailure(s, ev, reqUser, id, sink) ==
    IF ~IsPublisher(s, reqUser) \/ id \notin DOMAIN s.articles
    THEN [storage |-> s, events |-> ev]
    ELSE
    LET article   == s.articles[id]
        scoreData == getVerificationScore(s, id)
    IN  IF scoreData.score >= ScoreVerifiedThreshold /\ article.status # "verified"
        THEN markVerifiedSinkFailure(s, ev, article, id, scoreData, sink)
        ELSE IF scoreData.score <= ScoreDisprovenThreshold /\ article.status # "disproven"
        THEN markDisproven(s, ev, article, id, scoreData)
        ELSE keepStatus(s, ev, article, id, scoreData)

VerifyTruthSinkFailure(reqUser, id, sink) ==
    LET after == verifyTruthSinkFailure(storage, events, reqUser, id, sink)
    IN  /\ storage' = after.storage
        /\ events' = after.events
        /\ UNCHANGED calls

(***************************************************************************)
(* Spec: article creation and verification recording (the count-threshold  *)
(* path), from the seeded store.                                           *)
(***************************************************************************)
\* Verification records allowed in a run.
MaxVerifications == 6

\* The ids a created article may get: one article is created after the seed.
NewArticleIds == {4}

\* The articles verification requests name: the seeded pending article, the
\* created one, and an id that names none.
RequestArticleIds == {2, 4, 9}

\* The users requests come from: a journalist (the author of article 2), a
\* community member and the first registered user.
RequestUsers == {2, 3, 6}

\* The users articles are posted by: a journalist and a community member.
PostingUsers == {1, 3}

ArticleStatusInputs == verificationStatuses \cup {NoStatus}

RecordedStatuses == verificationStatuses

Init ==
    /\ storage = SeedStorage
    /\ events = <<>>
    /\ calls = <<>>

CreateAction ==
    /\ storage.articleId \in NewArticleIds
    /\ \/ WhistleblowerSubmit
       \/ \E reqUser \in PostingUsers, status \in ArticleStatusInputs, wb \in BOOLEAN :
              PostArticle(reqUser, status, wb)

RecordAction ==
    /\ storage.verificationId <= MaxVerifications
    /\ \E reqUser \in RequestUsers, articleId \in RequestArticleIds,
          status \in RecordedStatuses :
              PostVerification(reqUser, articleId, status)

Next == CreateAction \/ RecordAction

Spec == Init /\ [][Next]_vars

(***************************************************************************)
(* SpecEval: the score-threshold path.  A publisher registers, an article  *)
(* is posted, and verifications are recorded for it through POST           *)
(* /api/verifications; evaluate-truth calls and a few further recordings   *)
(* follow.                                                                 *)
(***************************************************************************)
\* Verification records of the evaluated article when evaluation starts.
MaxEvalTotal == 10

\* Records up to which further recordings are explored between evaluations.
MaxEvalRecordings == 2

RECURSIVE recordMany(_, _, _, _, _)
\* n requests POST /api/verifications with the same body.
recordMany(s, reqUser, articleId, status, n) ==
    IF n = 0 THEN s
    ELSE postVerification(recordMany(s, reqUser, articleId, status, n - 1),
                          reqUser, articleId, status)

\* Article 4 posted by user 1 and then verified p times, disproven n times
\* and judged "pending" q times by user 2, a publisher being registered first.
Recorded(status, wb, p, n, q) ==
    LET registered == createUser(SeedStorage, "publisher")
        posted     == createArticle(registered, 1, status, wb)
        id         == registered.articleId
    IN  recordMany(recordMany(recordMany(posted, 2, id, "verified", p),
                              2, id, "disproven", n),
                   2, id, "pending", q)

InitEval ==
    /\ \E status \in ArticleStatusInputs, wb \in BOOLEAN,
          p \in 0..MaxEvalTotal, n \in 0..MaxEvalTotal, q \in 0..MaxEvalTotal :
              /\ p + n + q <= MaxEvalTotal
              /\ storage = Recorded(status, wb, p, n, q)
    /\ events = <<>>
    /\ calls = <<>>

EvaluateAction ==
    \E reqUser \in RequestUsers, id \in RequestArticleIds : VerifyTruth(reqUser, id)

RecordMoreAction ==
    /\ storage.verificationId <= MaxEvalRecordings
    /\ \E reqUser \in RequestUsers, status \in RecordedStatuses :
              PostVerification(reqUser, 4, status)

NextEval == EvaluateAction \/ RecordMoreAction

SpecEval == InitEval /\ [][NextEval]_vars

(***************************************************************************)
(* SpecScore: getVerificationScore over long histories of one article.     *)
(***************************************************************************)
\* Verification records of the scored article.
MaxScoreTotal == 40

InitScore ==
    /\ storage = Recorded("pending", FALSE, 0, 0, 0)
    /\ events = <<>>
    /\ calls = <<>>

\* Requests arrive grouped by judgment: verified, then disproven, then at
\* most one "pending"; the article is evaluated once, after the last of them.
InOrder(status) ==
    LET disproven == CountWithStatus(storage, 4, "disproven")
        pending   == CountWithStatus(storage, 4, "pending")
    IN  CASE status = "verified"  -> disproven = 0 /\ pending = 0
          [] status = "disproven" -> pending = 0
          [] OTHER                -> pending = 0

RecordInOrderAction ==
    /\ storage.verificationId <= MaxScoreTotal
    /\ storage.articles[4].truthScore = Undefined
    /\ \E status \in RecordedStatuses :
              InOrder(status) /\ PostVerification(2, 4, status)

EvaluateScoreAction == VerifyTruth(6, 4)

NextScore == RecordInOrderAction \/ EvaluateScoreAction

SpecScore == InitScore /\ [][NextScore]_vars

(***************************************************************************)
(* SpecTokens: everything that credits tokens.  One more user registers;   *)
(* evidence is submitted, verifications are recorded, articles are         *)
(* evaluated and publishers award tokens by hand.                          *)
(***************************************************************************)
\* Evidence records, verification records and ledger entries per user
\* allowed in a run.
MaxEvidence == 1

MaxTokenRecordings == 1

MaxAwards == 1

\* The id the registering user gets.
NewUserIds == {6}

\* req.user of the token requests: a community member and the registered
\* user.
TokenUsers == {3, 6}

\* The articles token requests name: the seeded pending article and an id
\* that names none.
TokenArticleIds == {2, 9}

EvidenceTypeInputs == evidenceTypes \cup {OtherEvidenceType}

\* The body of an award request: the userId of a community member or of
\* nobody, an amount (0: missing) and a reason.
AwardUserIds == {3, 9}

AwardAmounts == {-3, 0, 7}

AwardReasons == {"bonus"}

InitTokens ==
    /\ storage = SeedStorage
    /\ events = <<>>
    /\ calls = <<>>

RegisterAction ==
    /\ storage.userId \in NewUserIds
    /\ \E role \in userRoles : Register(role)

EvidenceAction ==
    /\ storage.evidenceId <= MaxEvidence
    /\ \E reqUser \in TokenUsers, articleId \in TokenArticleIds,
          type \in EvidenceTypeInputs :
              PostEvidence(reqUser, articleId, type)

RecordTokensAction ==
    /\ storage.verificationId <= MaxTokenRecordings
    /\ \E reqUser \in TokenUsers, articleId \in TokenArticleIds,
          status \in RecordedStatuses :
              PostVerification(reqUser, articleId, status)

EvaluateTokensAction ==
    \E reqUser \in TokenUsers, id \in TokenArticleIds : VerifyTruth(reqUser, id)

AwardAction ==
    \E reqUser \in TokenUsers, userId \in AwardUserIds, amount \in AwardAmounts,
       reason \in AwardReasons :
        /\ Len(getTokenAwards(storage, userId)) < MaxAwards
        /\ PostAward(reqUser, userId, amount, reason)

NextTokens ==
    \/ RegisterAction
    \/ EvidenceAction
    \/ RecordTokensAction
    \/ EvaluateTokensAction
    \/ AwardAction

SpecTokens == InitTokens /\ [][NextTokens]_vars

(***************************************************************************)
(* SpecCount: the seeded pending article, changed by verification          *)
(* recordings only.                                                        *)
(***************************************************************************)
\* Verification records of the article.
MaxCountRecordings == 10

\* The seeded article that is created pending, and a journalist who is not
\* its author.
PendingArticleId == 2

CountVerifier == 1

InitCount ==
    /\ storage = SeedStorage
    /\ events = <<>>
    /\ calls = <<>>

RecordCountAction ==
    /\ storage.verificationId <= MaxCountRecordings
    /\ \E status \in RecordedStatuses :
              PostVerification(CountVerifier, PendingArticleId, status)

NextCount == RecordCountAction

SpecCount == InitCount /\ [][NextCount]_vars

(***************************************************************************)
(* SpecSink: evaluate-truth with sinks that may throw, on an article       *)
(* posted pending with a short verification history.                       *)
(***************************************************************************)
\* Verification records of the evaluated article.
MaxSinkTotal == 4

InitSink ==
    /\ \E wb \in BOOLEAN,
          p \in 0..MaxSinkTotal, n \in 0..MaxSinkTotal, q \in 0..MaxSinkTotal :
              /\ p + n + q <= MaxSinkTotal
              /\ storage = Recorded("pending", wb, p, n, q)
    /\ events = <<>>
    /\ calls = <<>>

EvaluateSinkAction ==
    \E reqUser \in RequestUsers, id \in RequestArticleIds : VerifyTruth(reqUser, id)

EvaluateFailingAction ==
    \E reqUser \in RequestUsers, id \in RequestArticleIds, sink \in Sinks :
        VerifyTruthSinkFailure(reqUser, id, sink)

RecordSinkAction ==
    /\ storage.verificationId <= MaxSinkTotal
    /\ \E status \in RecordedStatuses : PostVerification(2, 4, status)

NextSink == EvaluateSinkAction \/ EvaluateFailingAction \/ RecordSinkAction

SpecSink == InitSink /\ [][NextSink]_vars

(***************************************************************************)
(* SpecAwards: storage calls that overlap.  An async method runs from its  *)
(* invocation to its first await without interruption, and from each       *)
(* resumption to the next await; between two such runs the runs of other   *)
(* calls may take place.  A call is a record of its arguments, its         *)
(* position, its locals and the awards it has issued.                      *)
(***************************************************************************)
\* Calls started in a run.
MaxCalls == 3

\* Verified recordings of the pending article stored before the calls start:
\* the next one reaches the threshold.
StoredVerified == VerifiedCountThreshold - 1

\* An article local that holds undefined.
NoArticle ==
    [authorId |-> 0, status |-> NoStatus, isWhistleblower |-> FALSE,
     verificationCount |-> 0, truthScore |-> Undefined]

newCall(op, userId, articleId, arg, amount) ==
    [op |-> op, pc |-> "start", userId |-> userId, articleId |-> articleId,
     arg |-> arg, amount |-> amount,
     hasArticle |-> FALSE, article |-> NoArticle,
     verifiedCount |-> 0, disprovenCount |-> 0,
     payee |-> 0, tokens |-> 0, user |-> 0, after |-> "done",
     awaiting |-> FALSE, issued |-> <<>>, overlapped |-> FALSE]

\* Mutant: updateUserTokens awaits between reading the user and writing it.
AwaitInUpdateUserTokens_AfterRead == TRUE

\* updateUserTokens has no await between this.users.get and this.users.set.
AwaitInUpdateUserTokens == FALSE

\* The invocation of updateUserTokens(payee, tokens); `after` is where the
\* caller continues once the promise it awaits is resolved.
callUpdateUserTokens(call, payee, tokens, after) ==
    [call EXCEPT !.pc = "read", !.payee = payee, !.tokens = tokens,
                 !.after = after, !.awaiting = FALSE]

\* The invocation of a storage method up to its first call or await.
startStatement(s, c) ==
    CASE c.op = "createVerification" ->
           [storage |-> [s EXCEPT !.verifications = @ @@ (s.verificationId :>
                                     [articleId |-> c.articleId, userId |-> c.userId,
                                      status |-> c.arg]),
                                  !.verificationId = @ + 1],
            call |-> [c EXCEPT !.pc = "count",
                               !.hasArticle = c.articleId \in DOMAIN s.articles,
                               !.article = IF c.articleId \in DOMAIN s.articles
                                           THEN s.articles[c.articleId] ELSE NoArticle,
                               !.awaiting = TRUE]]
      [] c.op = "createEvidence" ->
           [storage |-> [s EXCEPT !.evidence = @ @@ (s.evidenceId :>
                                     [articleId |-> c.articleId, userId |-> c.userId,
                                      type |-> c.arg,
                                      tokenReward |-> calculateTokenReward(c.arg)]),
                                  !.evidenceId = @ + 1],
            call |-> callUpdateUserTokens(c, c.userId, calculateTokenReward(c.arg),
                                          "done")]
      [] c.op = "logTokenAward" ->
           [storage |-> [s EXCEPT !.tokenAwards =
                            [u \in DOMAIN @ \cup {c.userId} |->
                                IF u = c.userId
                                THEN Append(getTokenAwards(s, c.userId),
                                            [amount |-> c.amount, reason |-> c.arg])
                                ELSE @[u]]],
            call |-> callUpdateUserTokens(c, c.userId, c.amount, "done")]
\* One statement of a call: the store and the call after it.  `awaiting`
\* tells that the call is suspended at an await before its next statement.
statement(s, c) ==
    CASE c.pc = "start" -> startStatement(s, c)
      [] c.pc = "count" ->
           IF c.hasArticle
           THEN LET counted == countVerification(s, c.article, c.articleId)
                IN  [storage |-> counted,
                     call |-> [c EXCEPT
                         !.pc = "check",
                         !.verifiedCount = CountWithStatus(counted, c.articleId, "verified"),
                         !.disprovenCount = CountWithStatus(counted, c.articleId, "disproven"),
                         !.awaiting = TRUE]]
           ELSE [storage |-> s,
                 call |-> callUpdateUserTokens(c, c.userId, VerifierReward, "done")]
      [] c.pc = "check" ->
           IF c.verifiedCount >= VerifiedCountThreshold /\ c.article.status # "verified"
           THEN [storage |-> updateArticleStatus(s, c.articleId, "verified"),
                 call |-> [c EXCEPT !.pc = "payAuthor", !.awaiting = TRUE]]
           ELSE IF c.disprovenCount >= DisprovenCountThreshold
                   /\ c.article.status # "disproven"
           THEN [storage |-> updateArticleStatus(s, c.articleId, "disproven"),
                 call |-> [c EXCEPT !.pc = "payVerifier", !.awaiting = TRUE]]
           ELSE [storage |-> s,
                 call |-> callUpdateUserTokens(c, c.userId, VerifierReward, "done")]
      [] c.pc = "payAuthor" ->
           [storage |-> s,
            call |-> callUpdateUserTokens(c, c.article.authorId, CountPathAuthorReward,
                                          "payVerifier")]
      [] c.pc = "payVerifier" ->
           [storage |-> s,
            call |-> callUpdateUserTokens(c, c.userId, VerifierReward, "done")]
      [] c.pc = "read" ->
           IF c.payee \in DOMAIN s.users
           THEN [storage |-> s,
                 call |-> [c EXCEPT !.pc = "write",
                                    !.user = s.users[c.payee].truthTokens,
                                    !.awaiting = AwaitInUpdateUserTokens,
                                    !.issued = Append(@, [userId |-> c.payee,
                                                          amount |-> c.tokens])]]
           ELSE [storage |-> s, call |-> [c EXCEPT !.pc = c.after, !.awaiting = TRUE]]
      [] c.pc = "write" ->
           [storage |-> [s EXCEPT !.users[c.payee].truthTokens =
                            IF c.user # 0 THEN c.user + c.tokens ELSE c.tokens],
            call |-> [c EXCEPT !.pc = c.after, !.awaiting = TRUE]]

RECURSIVE runToAwait(_, _)
\* The statements of a call from its position to its next await or its end.
runToAwait(s, c) ==
    LET r == statement(s, c)
    IN  IF r.call.pc = "done" \/ r.call.awaiting THEN r
        ELSE runToAwait(r.storage, r.call)

StartCall(c) ==
    LET r == runToAwait(storage, c)
    IN  /\ Len(calls) < MaxCalls
        /\ storage' = r.storage
        /\ calls' = Append(calls, r.call)
        /\ UNCHANGED events

\* The user the overlapping calls credit (the author of the pending article),
\* ids that name no user and no article, and the arguments of the calls.
AwardedUser == 2

CallUserIds == {AwardedUser, 9}

CallStatuses == {"verified"}

CallEvidenceTypes == {"contradicting"}

CallAmounts == {7}

InitAwards ==
    /\ storage = recordMany(SeedStorage, CountVerifier, PendingArticleId, "verified",
                            StoredVerified)
    /\ events = <<>>
    /\ calls = <<>>

StartVerificationAction ==
    \E status \in CallStatuses :
        StartCall(newCall("createVerification", AwardedUser, PendingArticleId, status, 0))

StartEvidenceAction ==
    \E type \in CallEvidenceTypes :
        StartCall(newCall("createEvidence", AwardedUser, PendingArticleId, type, 0))

StartAwardAction ==
    \E userId \in CallUserIds, amount \in CallAmounts :
        StartCall(newCall("logTokenAward", userId, 0, "bonus", amount))

ResumeCallAction ==
    \E i \in DOMAIN calls :
        /\ calls[i].pc # "done"
        /\ LET r == runToAwait(storage, calls[i])
           IN  /\ storage' = r.storage
               /\ calls' = [calls EXCEPT ![i] = r.call]
        /\ UNCHANGED events

NextAwards ==
    \/ StartVerificationAction
    \/ StartEvidenceAction
    \/ StartAwardAction
    \/ ResumeCallAction

SpecAwards == InitAwards /\ [][NextAwards]_vars

(***************************************************************************)
(* SpecRace: verify-truth handlers and createVerification calls on one     *)
(* article that overlap.  The handler is cut at its awaits like the        *)
(* storage methods; a call also records whether it ran while another call  *)
(* was in flight.                                                          *)
(***************************************************************************)
\* Calls started in a run.
MaxRaceCalls == 2

\* Mutant: the disproven branch without its status guard.
scoreBranch_DisprovenUnguarded(article, score) ==
    IF score >= ScoreVerifiedThreshold /\ article.status # "verified" THEN "verified"
    ELSE IF score <= ScoreDisprovenThreshold THEN "disproven"
    ELSE "keep"

\* Mutant: the branch is chosen on the score alone.
scoreBranch_NoStatusGuard(article, score) ==
    IF score >= ScoreVerifiedThreshold THEN "verified"
    ELSE IF score <= ScoreDisprovenThreshold THEN "disproven"
    ELSE "keep"

\* The branch verify-truth takes, on the article it read at its start.
scoreBranch(article, score) ==
    IF score >= ScoreVerifiedThreshold /\ article.status # "verified" THEN "verified"
    ELSE IF score <= ScoreDisprovenThreshold /\ article.status # "disproven"
    THEN "disproven"
    ELSE "keep"

newEvaluation(reqUser, id) ==
    [op |-> "verifyTruth", pc |-> "start", userId |-> reqUser, articleId |-> id,
     hasArticle |-> FALSE, article |-> NoArticle, score |-> 0, hasAuthor |-> FALSE,
     awaiting |-> FALSE, issued |-> <<>>, overlapped |-> FALSE]

\* One stretch of the verify-truth handler between two awaits: the store,
\* the broadcast list and the call after it.
verifyTruthStatement(s, ev, c) ==
    LET id   == c.articleId
        stay == [storage |-> s, events |-> ev, call |-> c]
    IN
    CASE c.pc = "start" ->
           IF ~IsPublisher(s, c.userId)
           THEN [stay EXCEPT !.call.pc = "done"]
           ELSE [stay EXCEPT !.call.pc = "lookup",
                             !.call.hasArticle = id \in DOMAIN s.articles,
                             !.call.article = IF id \in DOMAIN s.articles
                                              THEN s.articles[id] ELSE NoArticle]
      [] c.pc = "lookup" ->
           IF ~c.hasArticle
           THEN [stay EXCEPT !.call.pc = "done"]
           ELSE [stay EXCEPT !.call.pc = "scored",
                             !.call.score = getVerificationScore(s, id).score]
      [] c.pc = "scored" ->
           LET branch == scoreBranch(c.article, c.score)
           IN  CASE branch = "verified" ->
                      [stay EXCEPT !.storage = updateArticleStatus(s, id, "verified"),
                                   !.call.pc = "storeVerified"]
                 [] branch = "disproven" ->
                      [stay EXCEPT !.storage = updateArticleStatus(s, id, "disproven"),
                                   !.call.pc = "storeDisproven"]
                 [] OTHER ->
                      [stay EXCEPT !.storage = updateArticleTruthScore(s, id, c.score),
                                   !.call.pc = "done"]
      [] c.pc = "storeVerified" ->
           [stay EXCEPT !.storage = updateArticleTruthScore(s, id, c.score),
                        !.call.pc = "getAuthor"]
      [] c.pc = "getAuthor" ->
           [stay EXCEPT !.call.hasAuthor = c.article.authorId \in DOMAIN s.users,
                        !.call.pc = "award"]
      [] c.pc = "award" ->
           [stay EXCEPT !.call.pc = IF c.hasAuthor THEN "log" ELSE "broadcastVerified"]
      [] c.pc = "log" ->
           LET tokenAmount == IF c.article.isWhistleblower THEN WhistleblowerReward
                              ELSE RegularReward
           IN  [stay EXCEPT !.storage = logTokenAward(s, c.article.authorId, tokenAmount,
                                                      "Article verified"),
                            !.call.issued = Append(@, [userId |-> c.article.authorId,
                                                       amount |-> tokenAmount]),
                            !.call.pc = "broadcastVerified"]
      [] c.pc = "broadcastVerified" ->
           [stay EXCEPT !.events = Append(ev, [type |-> "article_verified",
                                               articleId |-> id, score |-> c.score]),
                        !.call.pc = "done"]
      [] c.pc = "storeDisproven" ->
           [stay EXCEPT !.storage = updateArticleTruthScore(s, id, c.score),
                        !.call.pc = "broadcastDisproven"]
      [] c.pc = "broadcastDisproven" ->
           [stay EXCEPT !.events = Append(ev, [type |-> "article_disproven",
                                               articleId |-> id, score |-> c.score]),
                        !.call.pc = "done"]
\* A run of a call of either kind to its next await.
raceStep(s, ev, c) ==
    IF c.op = "verifyTruth" THEN verifyTruthStatement(s, ev, c)
    ELSE LET r == runToAwait(s, c)
         IN  [storage |-> r.storage, events |-> ev, call |-> r.call]

\* The article the calls are about, its verifier and the publisher.
RaceArticleId == 4

RaceVerifier == 2

RacePublisher == 6

\* Verified recordings stored before the calls start.
RaceStored == {1, StoredVerified}

InitRace ==
    /\ \E wb \in BOOLEAN, p \in RaceStored :
           storage = Recorded("pending", wb, p, 0, 0)
    /\ events = <<>>
    /\ calls = <<>>

\* A call starts: it overlaps the calls that have not returned, and they
\* overlap it.
StartRaceCall(c) ==
    LET inFlight == \E i \in DOMAIN calls : calls[i].pc # "done"
        r        == raceStep(storage, events, [c EXCEPT !.overlapped = inFlight])
    IN  /\ Len(calls) < MaxRaceCalls
        /\ storage' = r.storage
        /\ events' = r.events
        /\ calls' = Append([i \in DOMAIN calls |->
                               IF calls[i].pc # "done"
                               THEN [calls[i] EXCEPT !.overlapped = TRUE]
                               ELSE calls[i]],
                           r.call)

StartEvaluationAction == StartRaceCall(newEvaluation(RacePublisher, RaceArticleId))

StartRecordingAction ==
    StartRaceCall(newCall("createVerification", RaceVerifier, RaceArticleId,
                          "verified", 0))

ResumeRaceAction ==
    \E i \in DOMAIN calls :
        /\ calls[i].pc # "done"
        /\ LET r == raceStep(storage, events, calls[i])
           IN  /\ storage' = r.storage
               /\ events' = r.events
               /\ calls' = [calls EXCEPT ![i] = r.call]

NextRace == StartEvaluationAction \/ StartRecordingAction \/ ResumeRaceAction

SpecRace == InitRace /\ [][NextRace]_vars

(***************************************************************************)
(* SpecOverride: updateArticleStatus called by hand on an article with a   *)
(* short verification history, between evaluations.                        *)
(***************************************************************************)
\* Verification records of the article.
MaxOverrideTotal == 2

\* Notifications sent before evaluation stops.
MaxOverrideEvents == 2

\* The status argument is a string: the three statuses and another value.
OverrideStatuses == verificationStatuses \cup {"archived"}

InitOverride ==
    /\ \E status \in ArticleStatusInputs, wb \in BOOLEAN,
          p \in 0..MaxOverrideTotal, n \in 0..MaxOverrideTotal,
          q \in 0..MaxOverrideTotal :
              /\ p + n + q <= MaxOverrideTotal
              /\ storage = Recorded(status, wb, p, n, q)
    /\ events = <<>>
    /\ calls = <<>>

OverrideAction ==
    \E id \in RequestArticleIds, status \in OverrideStatuses :
        /\ storage' = updateArticleStatus(storage, id, status)
        /\ UNCHANGED <<events, calls>>

EvaluateOverrideAction ==
    /\ Len(events) < MaxOverrideEvents
    /\ \E reqUser \in RequestUsers, id \in RequestArticleIds : VerifyTruth(reqUser, id)

NextOverride == OverrideAction \/ EvaluateOverrideAction

SpecOverride == InitOverride /\ [][NextOverride]_vars

(***************************************************************************)
(* SpecNotify: evaluations of one article run statement by statement, one  *)
(* request after the other, from every short verification history.         *)
(***************************************************************************)
\* Verification records of the article.
MaxNotifyTotal == 2

InitNotify ==
    /\ \E status \in ArticleStatusInputs, wb \in BOOLEAN,
          p \in 0..MaxNotifyTotal, n \in 0..MaxNotifyTotal,
          q \in 0..MaxNotifyTotal :
              /\ p + n + q <= MaxNotifyTotal
              /\ storage = Recorded(status, wb, p, n, q)
    /\ events = <<>>
    /\ calls = <<>>

\* A request arrives after the one before it was answered.
StartNotifyAction ==
    /\ \A i \in DOMAIN calls : calls[i].pc = "done"
    /\ StartEvaluationAction

NextNotify == StartNotifyAction \/ ResumeRaceAction

SpecNotify == InitNotify /\ [][NextNotify]_vars

(***************************************************************************)
(* SpecPaid: a pending article one record short of either count threshold, *)
(* then recordings and evaluations.                                        *)
(***************************************************************************)
\* Verification records added to the stored ones.
MaxPaidRecordings == 3

\* Records of each decisive status stored at the start.
StoredDisproven == DisprovenCountThreshold - 1

InitPaid ==
    /\ \E wb \in BOOLEAN :
           storage = Recorded("pending", wb, StoredVerified, StoredDisproven, 0)
    /\ events = <<>>
    /\ calls = <<>>

RecordPaidAction ==
    /\ storage.verificationId <= StoredVerified + StoredDisproven + MaxPaidRecordings
    /\ \E status \in RecordedStatuses :
           PostVerification(RaceVerifier, RaceArticleId, status)

EvaluatePaidAction == VerifyTruth(RacePublisher, RaceArticleId)

NextPaid == RecordPaidAction \/ EvaluatePaidAction

SpecPaid == InitPaid /\ [][NextPaid]_vars

(***************************************************************************)
(* Properties.                                                             *)
(***************************************************************************)
ArticleIds == DOMAIN storage.articles

Tokens(s, userId) == s.users[userId].truthTokens

\* A step that stored a verification record; the record; its article.
Recording == storage'.verificationId = storage.verificationId + 1

NewRecord == storage'.verifications[storage.verificationId]

\* What a recording step credited to the author of article a beyond the
\* verifier reward the author earns when recording it himself.
AuthorCredit(a) ==
    LET author == storage.articles[a].authorId
    IN  Tokens(storage', author) - Tokens(storage, author)
            - (IF NewRecord.userId = author THEN VerifierReward ELSE 0)

\* C1: in every reachable state each article's verificationCount equals the
\* number of stored verification records that name the article.
C1_CountMatchesRecords ==
    \A a \in ArticleIds :
        storage.articles[a].verificationCount =
            Cardinality(getVerificationsForArticle(storage, a))

\* Both the seeded and the created article have been verified several times.
C1_Witness ==
    /\ 4 \in ArticleIds
    /\ storage.articles[4].verificationCount = 2
    /\ storage.articles[2].verificationCount = 4
    /\ Cardinality(DOMAIN storage.verifications) = 6

\* C2: once an article is verified or disproven, recording further
\* verifications never changes its status.
C2_RecordingKeepsTerminalStatus ==
    [][\A a \in ArticleIds :
           (Recording /\ storage.articles[a].status \in {"verified", "disproven"})
               => storage'.articles[a].status = storage.articles[a].status]_vars

\* C3: an evaluate-truth call never moves a verified article to disproven nor
\* a disproven article to verified.
C3_EvaluateKeepsTerminalStatus ==
    [][\A a \in ArticleIds :
           ~Recording
               => /\ storage.articles[a].status = "verified"
                         => storage'.articles[a].status # "disproven"
                  /\ storage.articles[a].status = "disproven"
                         => storage'.articles[a].status # "verified"]_vars

\* C4: while no verification of an article is "disproven", a recording leaves
\* a pending article pending and its author unpaid below 5 "verified"
\* records, makes the article verified and pays the author once at the
\* 5th, and changes and pays nothing once the article is verified.
C4_VerifiedOnceAtFifth ==
    [][Recording /\ NewRecord.articleId \in ArticleIds
         /\ CountWithStatus(storage', NewRecord.articleId, "disproven") = 0
       => LET a      == NewRecord.articleId
              before == storage.articles[a].status
              after  == storage'.articles[a].status
              k      == CountWithStatus(storage', a, "verified")
          IN  /\ (before = "pending" /\ k < VerifiedCountThreshold)
                     => (after = "pending" /\ AuthorCredit(a) = 0)
              /\ (before = "pending" /\ k >= VerifiedCountThreshold)
                     => (/\ k = VerifiedCountThreshold
                         /\ NewRecord.status = "verified"
                         /\ after = "verified"
                         /\ AuthorCredit(a) = CountPathAuthorReward)
              /\ before = "verified"
                     => (after = "verified" /\ AuthorCredit(a) = 0)]_vars

\* Article 4, posted pending by user 1, after a 6th "verified" record: its
\* author holds the one reward.
C4_Witness ==
    /\ 4 \in ArticleIds
    /\ CountWithStatus(storage, 4, "verified") = 6
    /\ storage.articles[4].status = "verified"
    /\ storage.articles[2].status = "pending"
    /\ Tokens(storage, 1) = CountPathAuthorReward

\* An evaluate-truth request that passes the role and existence checks.
Accepted(reqUser, id) == IsPublisher(storage, reqUser) /\ id \in ArticleIds

\* The store an evaluate-truth request leaves.
Evaluated(reqUser, id) == verifyTruth(storage, events, reqUser, id).storage

Score(id) == getVerificationScore(storage, id).score

\* C5: a second evaluate-truth call right after a first leaves the status
\* and truthScore of the first, appends no ledger entry and changes no
\* balance.
C5_EvaluateIdempotent ==
    \A reqUser \in RequestUsers, id \in ArticleIds :
        LET once  == verifyTruth(storage, events, reqUser, id)
            twice == verifyTruth(once.storage, once.events, reqUser, id)
        IN  /\ twice.storage.articles[id].status = once.storage.articles[id].status
            /\ twice.storage.articles[id].truthScore = once.storage.articles[id].truthScore
            /\ twice.storage.tokenAwards = once.storage.tokenAwards
            /\ twice.storage.users = once.storage.users

\* A whistleblower article was verified by an evaluation and its author paid
\* once.
C5_Witness ==
    /\ Len(events) = 1
    /\ events[1] = [type |-> "article_verified", articleId |-> 4, score |-> 100]
    /\ storage.articles[4].isWhistleblower
    /\ Len(getTokenAwards(storage, 1)) = 1
    /\ Tokens(storage, 1) = WhistleblowerReward

\* Halves up: floor(100 * p / t + 1/2).
RoundHalfUpPercent(p, t) == (200 * p + t) \div (2 * t)

\* C6: getVerificationScore returns the number of verifications of the
\* article, the numbers with status verified and disproven, and the
\* percentage of verified ones rounded to the nearest integer, halves up
\* (50 when there are none).
C6_ScoreIsRoundedPercentage ==
    \A a \in ArticleIds :
        LET records   == {i \in DOMAIN storage.verifications :
                              storage.verifications[i].articleId = a}
            positive  == Cardinality({i \in records :
                              storage.verifications[i].status = "verified"})
            negative  == Cardinality({i \in records :
                              storage.verifications[i].status = "disproven"})
            scoreData == getVerificationScore(storage, a)
        IN  /\ scoreData.totalCount = Cardinality(records)
            /\ scoreData.positiveCount = positive
            /\ scoreData.negativeCount = negative
            /\ scoreData.score = IF Cardinality(records) > 0
                                 THEN RoundHalfUpPercent(positive, Cardinality(records))
                                 ELSE 50

\* C7: the 5th of 5 "verified" recordings for a pending article makes it
\* verified with verificationCount 5 and credits its author 10 tokens, 15
\* when it is a whistleblower article.
C7_FifthVerifiedPaysAuthor ==
    [][Recording /\ NewRecord.articleId \in ArticleIds
         /\ storage.articles[NewRecord.articleId].status = "pending"
         /\ CountWithStatus(storage', NewRecord.articleId, "verified") = 5
         /\ Cardinality(getVerificationsForArticle(storage', NewRecord.articleId)) = 5
       => LET a == NewRecord.articleId
          IN  /\ storage'.articles[a].status = "verified"
              /\ storage'.articles[a].verificationCount = 5
              /\ AuthorCredit(a) = IF storage.articles[a].isWhistleblower
                                   THEN 15 ELSE 10]_vars

C9_EvaluateDisproves ==
    \A reqUser \in RequestUsers, id \in ArticleIds :
        LET after == Evaluated(reqUser, id)
        IN  /\ (Accepted(reqUser, id) /\ Score(id) <= 30
                    /\ storage.articles[id].status # "disproven")
               => /\ after.articles[id].status = "disproven"
                  /\ after.articles[id].truthScore = Score(id)
                  /\ after.users = storage.users
                  /\ after.tokenAwards = storage.tokenAwards
            /\ (Accepted(reqUser, id)
                    /\ CountWithStatus(storage, id, "verified") = 2
                    /\ CountWithStatus(storage, id, "disproven") = 8
                    /\ Cardinality(getVerificationsForArticle(storage, id)) = 10)
               => /\ after.articles[id].status = "disproven"
                  /\ after.articles[id].truthScore = 20
                  /\ after.users = storage.users
                  /\ after.tokenAwards = storage.tokenAwards

\* An article evaluated at exactly 30 (3 of 10) while pending: disproven, no
\* ledger entry.
C9_Witness ==
    /\ storage.articles[4].status = "disproven"
    /\ storage.articles[4].truthScore = 30
    /\ events = <<[type |-> "article_disproven", articleId |-> 4, score |-> 30]>>
    /\ storage.tokenAwards = <<>>

\* C10: an evaluate-truth call that takes neither threshold branch leaves the
\* status, stores the score and changes no balance and no ledger.
C10_EvaluateInconclusive ==
    \A reqUser \in RequestUsers, id \in ArticleIds :
        (/\ Accepted(reqUser, id)
         /\ ~(Score(id) >= 70 /\ storage.articles[id].status # "verified")
         /\ ~(Score(id) <= 30 /\ storage.articles[id].status # "disproven"))
        => LET after == Evaluated(reqUser, id)
           IN  /\ after.articles[id].status = storage.articles[id].status
               /\ after.articles[id].truthScore = Score(id)
               /\ after.users = storage.users
               /\ after.tokenAwards = storage.tokenAwards

\* 5 verified and 5 disproven verifications, evaluated: truthScore 50, no
\* broadcast, no ledger entry.
C10_Witness ==
    /\ CountWithStatus(storage, 4, "verified") = 5
    /\ CountWithStatus(storage, 4, "disproven") = 5
    /\ storage.articles[4].truthScore = 50
    /\ events = <<>>
    /\ storage.tokenAwards = <<>>

\* C11: an evidence submission for an existing article appends exactly one
\* Evidence record whose tokenReward is 2 for supporting, 3 for
\* contradicting, 1 for contextual and 1 for any other type, and raises the
\* submitting user's truthTokens by that tokenReward.
C11_EvidenceRewardTable ==
    \A reqUser \in DOMAIN storage.users, articleId \in ArticleIds,
       type \in EvidenceTypeInputs :
        LET after  == createEvidence(storage, articleId, reqUser, type)
            id     == storage.evidenceId
            reward == CASE type = "supporting"    -> 2
                        [] type = "contradicting" -> 3
                        [] type = "contextual"    -> 1
                        [] OTHER                  -> 1
        IN  /\ id \notin DOMAIN storage.evidence
            /\ DOMAIN after.evidence = DOMAIN storage.evidence \cup {id}
            /\ \A e \in DOMAIN storage.evidence : after.evidence[e] = storage.evidence[e]
            /\ after.evidence[id] = [articleId |-> articleId, userId |-> reqUser,
                                     type |-> type, tokenReward |-> reward]
            /\ Tokens(after, reqUser) = Tokens(storage, reqUser) + reward
            /\ \A u \in DOMAIN storage.users \ {reqUser} :
                   Tokens(after, u) = Tokens(storage, u)
            /\ type \in evidenceTypes
                   => postEvidence(storage, reqUser, articleId, type) = after

\* User 3 submitted contradicting evidence for article 2 and holds its 3
\* tokens.
C11_Witness ==
    /\ DOMAIN storage.evidence = {1}
    /\ storage.evidence[1] = [articleId |-> 2, userId |-> 3,
                              type |-> "contradicting", tokenReward |-> 3]
    /\ Tokens(storage, 3) = 3

\* C12: every user's truthTokens is at least 0 and no operation lowers it.
C12_TokensNeverDecrease ==
    [][\A u \in DOMAIN storage.users :
           /\ Tokens(storage', u) >= Tokens(storage, u)
           /\ Tokens(storage', u) >= 0]_vars

\* C13: a verification or evidence request that names an article that does
\* not exist changes nothing in the store: no record, no id counter, no
\* article, no balance.
C13_MissingArticleRejected ==
    \A reqUser \in TokenUsers,
       articleId \in (TokenArticleIds \cup RequestArticleIds) \ ArticleIds :
        /\ \A status \in RecordedStatuses :
               postVerification(storage, reqUser, articleId, status) = storage
        /\ \A type \in EvidenceTypeInputs :
               postEvidence(storage, reqUser, articleId, type) = storage

\* User 6, who may verify and has one verification and one evidence record
\* stored for article 2, names article 9, which does not exist.
C13_Witness ==
    /\ CanPublish(storage, 6)
    /\ 9 \notin ArticleIds
    /\ DOMAIN storage.verifications = {1} /\ storage.verifications[1].userId = 6
    /\ DOMAIN storage.evidence = {1} /\ storage.evidence[1].userId = 6
    /\ postVerification(storage, 6, 9, "verified") = storage
    /\ postEvidence(storage, 6, 9, "supporting") = storage

\* C14: every stored verification record has status verified or disproven,
\* so that for every article totalCount = positiveCount + negativeCount.
C14_VerificationsAreDecisive ==
    /\ \A i \in DOMAIN storage.verifications :
           storage.verifications[i].status \in {"verified", "disproven"}
    /\ \A a \in ArticleIds :
           LET scoreData == getVerificationScore(storage, a)
           IN  scoreData.totalCount = scoreData.positiveCount + scoreData.negativeCount

\* C15: every newly created article has status pending and
\* verificationCount 0, whatever the request supplies.
C15_ArticlesStartPending ==
    [][storage'.articleId = storage.articleId + 1
       => /\ storage'.articles[storage.articleId].status = "pending"
          /\ storage'.articles[storage.articleId].verificationCount = 0]_vars

\* C16: logTokenAward(userId, amount, reason) either appends one entry to
\* userId's award log and raises that user's truthTokens by amount, or
\* leaves the log and every balance as they were; also when userId names no
\* user.
C16_LogTokenAwardAllOrNothing ==
    \A userId \in AwardUserIds \cup DOMAIN storage.users, amount \in AwardAmounts,
       reason \in AwardReasons :
        LET after == logTokenAward(storage, userId, amount, reason)
            both  == /\ getTokenAwards(after, userId) =
                            Append(getTokenAwards(storage, userId),
                                   [amount |-> amount, reason |-> reason])
                     /\ userId \in DOMAIN storage.users
                     /\ Tokens(after, userId) = Tokens(storage, userId) + amount
            neither == /\ \A u \in AwardUserIds \cup DOMAIN storage.users :
                              getTokenAwards(after, u) = getTokenAwards(storage, u)
                       /\ after.users = storage.users
        IN  both \/ neither

RECURSIVE SumOfAmounts(_)
SumOfAmounts(awards) ==
    IF awards = <<>> THEN 0
    ELSE awards[1].amount + SumOfAmounts(Tail(awards))

\* C17: every registered user's truthTokens equals the sum of the amounts in
\* the user's award log.
C17_BalanceEqualsLedger ==
    \A u \in DOMAIN storage.users :
        Tokens(storage, u) = SumOfAmounts(getTokenAwards(storage, u))

\* C18: an article created pending and changed by recordings only is pending
\* exactly when fewer than 5 verified and fewer than 5 disproven
\* verifications are recorded for it; verified, it has at least 5 verified
\* verifications; disproven, at least 5 disproven ones.
C18_StatusFollowsCounts ==
    LET status    == storage.articles[PendingArticleId].status
        verified  == CountWithStatus(storage, PendingArticleId, "verified")
        disproven == CountWithStatus(storage, PendingArticleId, "disproven")
    IN  /\ status = "pending" <=> (verified < 5 /\ disproven < 5)
        /\ status = "verified" => verified >= 5
        /\ status = "disproven" => disproven >= 5
        /\ status \in {"pending", "verified", "disproven"}

\* The article was verified at the 5th of 5 verified recordings and stands
\* disproven after 5 disproven ones.
C18_Witness ==
    /\ CountWithStatus(storage, PendingArticleId, "verified") = 5
    /\ CountWithStatus(storage, PendingArticleId, "disproven") = 5
    /\ storage.verifications[5].status = "verified"
    /\ storage.verifications[1].status = "verified"
    /\ storage.articles[PendingArticleId].status = "disproven"

\* C19: when the token sink or the notification publisher throws during the
\* score-path transition to verified, the article is verified with its
\* truthScore set all the same, and every ledger keeps the entries it had.
C19_SinkFailureKeepsTransition ==
    \A reqUser \in RequestUsers, id \in ArticleIds, sink \in Sinks :
        (Accepted(reqUser, id) /\ Score(id) >= 70
             /\ storage.articles[id].status # "verified")
        => LET after == verifyTruthSinkFailure(storage, events, reqUser, id, sink).storage
           IN  /\ after.articles[id].status = "verified"
               /\ after.articles[id].truthScore = Score(id)
               /\ \A u \in DOMAIN storage.users :
                      LET old == getTokenAwards(storage, u)
                          new == getTokenAwards(after, u)
                      IN  /\ Len(new) >= Len(old)
                          /\ SubSeq(new, 1, Len(old)) = old
               /\ Len(getTokenAwards(after, storage.articles[id].authorId))
                      = Len(getTokenAwards(storage, storage.articles[id].authorId))
                            + (IF sink = "awardTokens" THEN 0 ELSE 1)

\* The token sink threw: article 4 is verified with truthScore 100, nothing
\* was broadcast and its author has neither ledger entry nor tokens.
C19_Witness ==
    /\ storage.articles[4].status = "verified"
    /\ storage.articles[4].truthScore = 100
    /\ events = <<>>
    /\ getTokenAwards(storage, 1) = <<>>
    /\ Tokens(storage, 1) = 0

RECURSIVE IssuedTo(_, _)
\* The sum of the amounts in a call's list of issued awards that went to u.
IssuedTo(issued, u) ==
    IF issued = <<>> THEN 0
    ELSE (IF issued[1].userId = u THEN issued[1].amount ELSE 0)
             + IssuedTo(Tail(issued), u)

RECURSIVE AwardedTo(_, _)
\* The sum of what the first n calls have issued to u.
AwardedTo(n, u) ==
    IF n = 0 THEN 0 ELSE IssuedTo(calls[n].issued, u) + AwardedTo(n - 1, u)

\* C20: however the calls that award tokens interleave at their awaits, once
\* they have all returned every user's truthTokens is the initial value
\* plus the sum of all the amounts awarded to the user.
C20_NoLostAward ==
    (\A i \in DOMAIN calls : calls[i].pc = "done")
        => \A u \in DOMAIN storage.users :
               Tokens(storage, u) = Tokens(SeedStorage, u)
                   + (IF u = CountVerifier THEN StoredVerified * VerifierReward ELSE 0)
                   + AwardedTo(Len(calls), u)

\* Two overlapping createVerification calls both made the article verified
\* and both paid its author, who also recorded them; an award was logged
\* meanwhile: the author holds 10 + 5 + 10 + 5 + 7 tokens.
C20_Witness ==
    /\ Len(calls) = 3
    /\ \A i \in DOMAIN calls : calls[i].pc = "done"
    /\ Len(calls[1].issued) = 2 /\ Len(calls[2].issued) = 2
    /\ calls[3].op = "logTokenAward" /\ calls[3].userId = AwardedUser
    /\ Tokens(storage, AwardedUser) = 37

\* The calls that have paid the author of the raced article its reward.
PaidAuthor ==
    {i \in DOMAIN calls :
        \E k \in DOMAIN calls[i].issued :
            /\ calls[i].issued[k].userId = storage.articles[RaceArticleId].authorId
            /\ calls[i].issued[k].amount
                   \in {CountPathAuthorReward, RegularReward, WhistleblowerReward}}

\* C21: a call pays the author on the article it read at its start, which
\* was not verified, whatever has been written since; when no two calls
\* overlap, at most one call pays the author.
C21_ThresholdCheckNotAtomic ==
    /\ \A i \in PaidAuthor : calls[i].article.status # "verified"
    /\ (\A i \in DOMAIN calls : ~calls[i].overlapped) => Cardinality(PaidAuthor) <= 1

\* Two overlapping evaluations both verified the article: two broadcasts, two
\* ledger entries, the author paid twice.
C21_Witness ==
    /\ Len(calls) = 2
    /\ \A i \in DOMAIN calls :
           calls[i].op = "verifyTruth" /\ calls[i].pc = "done" /\ calls[i].overlapped
    /\ PaidAuthor = {1, 2}
    /\ Len(events) = 2
    /\ Len(getTokenAwards(storage, 1)) = 2
    /\ Tokens(storage, 1) = 2 * RegularReward

\* C22: updateArticleStatus(id, status) gives an existing article the status
\* from any current one and changes nothing else: not its verificationCount
\* or truthScore, no other article, no verification, balance or award log;
\* for an id that names no article it changes nothing.
C22_OverrideSetsStatusOnly ==
    \A id \in RequestArticleIds, status \in OverrideStatuses :
        LET after == updateArticleStatus(storage, id, status)
        IN  IF id \in ArticleIds
            THEN /\ after.articles[id].status = status
                 /\ after.articles[id].verificationCount
                        = storage.articles[id].verificationCount
                 /\ after.articles[id].truthScore = storage.articles[id].truthScore
                 /\ after.articles[id].authorId = storage.articles[id].authorId
                 /\ after.articles[id].isWhistleblower
                        = storage.articles[id].isWhistleblower
                 /\ DOMAIN after.articles = ArticleIds
                 /\ \A a \in ArticleIds \ {id} : after.articles[a] = storage.articles[a]
                 /\ after.verifications = storage.verifications
                 /\ after.evidence = storage.evidence
                 /\ after.users = storage.users
                 /\ after.tokenAwards = storage.tokenAwards
                 /\ after.articleId = storage.articleId
                 /\ after.verificationId = storage.verificationId
            ELSE after = storage

\* Article 4 was evaluated at 100, which verified it and paid its author, and
\* was then set back to pending by hand: score and reward are still there.
C22_Witness ==
    /\ storage.articles[4].status = "pending"
    /\ storage.articles[4].truthScore = 100
    /\ Len(getTokenAwards(storage, 1)) = 1
    /\ Len(events) = 1

\* The records stored for a verifier.
RecordsBy(userId) ==
    {i \in DOMAIN storage.verifications : storage.verifications[i].userId = userId}

\* C23: every step that stores a verification record credits exactly 5 to
\* its verifier, whatever the record's status and whether or not the article
\* changed status; the only other credit the verifier can get in that step
\* is the author reward of an article of their own that became verified.
C23_VerifierAlwaysPaidFive ==
    [][Recording =>
        LET v == NewRecord.userId
            a == NewRecord.articleId
            asAuthor == IF /\ a \in ArticleIds
                           /\ storage.articles[a].authorId = v
                           /\ storage.articles[a].status # "verified"
                           /\ storage'.articles[a].status = "verified"
                        THEN CountPathAuthorReward ELSE 0
        IN  /\ Tokens(storage', v) - Tokens(storage, v) - asAuthor = VerifierReward
            /\ \A u \in DOMAIN storage.users \ {v} :
                   Tokens(storage', u) # Tokens(storage, u)
                       => /\ a \in ArticleIds
                          /\ u = storage.articles[a].authorId
                          /\ storage'.articles[a].status = "verified"]_vars

\* Journalist 2 recorded a disproven verification and then the fifth
\* "verified" one on their own pending article, which moved it to verified:
\* they hold 5 for each of their records and the author reward.
C23_Witness ==
    /\ storage.articles[PendingArticleId].status = "verified"
    /\ storage.articles[PendingArticleId].authorId = 2
    /\ \E i, j \in RecordsBy(2) :
           /\ storage.verifications[i].status = "disproven"
           /\ storage.verifications[j].status = "verified"
           /\ storage.verifications[j].articleId = PendingArticleId
           /\ j > i
           /\ CountWithStatus(storage, PendingArticleId, "verified")
                  = VerifiedCountThreshold
    /\ Tokens(storage, 2) = VerifierReward * Cardinality(RecordsBy(2))
                                + CountPathAuthorReward

\* C24: a recording on an article whose status was set to any of the three
\* values: when the disproven records then number at least 5, the status was
\* not disproven and the verified check, which comes first, does not fire,
\* the article becomes disproven and its author is credited nothing; when the
\* verified check fires the article ends verified even if the disproven
\* check would fire too; when neither fires the status stays.
C24_DisprovenCheckSecondAndUnpaid ==
    \A st \in verificationStatuses, status \in RecordedStatuses :
        LET a == PendingArticleId
            author == storage.articles[a].authorId
            before == updateArticleStatus(storage, a, st)
            after == createVerification(before, a, CountVerifier, status)
            verifiedFires ==
                /\ CountWithStatus(after, a, "verified") >= 5
                /\ st # "verified"
            disprovenFires ==
                /\ CountWithStatus(after, a, "disproven") >= 5
                /\ st # "disproven"
            credit == Tokens(after, author) - Tokens(before, author)
        IN  /\ (~verifiedFires /\ disprovenFires)
                   => after.articles[a].status = "disproven" /\ credit = 0
            /\ verifiedFires
                   => after.articles[a].status = "verified"
                         /\ credit = CountPathAuthorReward
            /\ (~verifiedFires /\ ~disprovenFires)
                   => after.articles[a].status = st /\ credit = 0

\* The 9th record, the 5th disproven one beside 4 verified ones, has just
\* disproven the article; its author holds nothing.
C24_Witness ==
    /\ storage.verificationId = 10
    /\ storage.verifications[9].status = "disproven"
    /\ CountWithStatus(storage, PendingArticleId, "disproven") = 5
    /\ CountWithStatus(storage, PendingArticleId, "verified") = 4
    /\ storage.articles[PendingArticleId].status = "disproven"
    /\ Tokens(storage, storage.articles[PendingArticleId].authorId) = 0

\* C25: a step that stores an evidence record leaves every article (status,
\* verificationCount, truthScore) and the verification records as they were,
\* and no step ever changes or removes an evidence record already stored.
C25_EvidenceTouchesNoArticle ==
    [][/\ \A i \in DOMAIN storage.evidence :
              /\ i \in DOMAIN storage'.evidence
              /\ storage'.evidence[i] = storage.evidence[i]
       /\ storage'.evidenceId = storage.evidenceId + 1
              => /\ storage'.articles = storage.articles
                 /\ storage'.verifications = storage.verifications]_vars

\* Evidence is stored for the seeded pending article, which also has a
\* verification record and an evaluated truthScore; the evidence record is
\* as it was written.
C25_Witness ==
    /\ 1 \in DOMAIN storage.evidence
    /\ storage.evidence[1].articleId = PendingArticleId
    /\ storage.evidence[1].tokenReward = calculateTokenReward(storage.evidence[1].type)
    /\ storage.articles[PendingArticleId].verificationCount = 1
    /\ getVerificationsForArticle(storage, PendingArticleId) # {}
    /\ storage.articles[PendingArticleId].truthScore # Undefined

\* The status a finished evaluation left: the one the next evaluation read
\* at its start, or the stored one after the last evaluation.
StatusAfter(i) ==
    IF i < Len(calls) THEN calls[i + 1].article.status
    ELSE storage.articles[RaceArticleId].status

\* The notifications the first n evaluations owe: one for each finished one
\* that changed the status, named after the status it gave.
RECURSIVE OwedEvents(_)
OwedEvents(n) ==
    IF n = 0 THEN <<>>
    ELSE LET c == calls[n]
         IN  IF c.pc = "done" /\ StatusAfter(n) # c.article.status
             THEN Append(OwedEvents(n - 1),
                         [type |-> IF StatusAfter(n) = "verified"
                                   THEN "article_verified" ELSE "article_disproven",
                          articleId |-> c.articleId, score |-> c.score])
             ELSE OwedEvents(n - 1)

\* C26: the notifications sent are, in order, one article_verified for each
\* finished evaluation that moved the article to verified, one
\* article_disproven for each that moved it to disproven, and none for an
\* evaluation that changed no status; an evaluation about to send
\* article_verified has stored the status and the score and logged the
\* author's reward, one about to send article_disproven has stored the
\* status and the score.
C26_OneNotificationPerTransition ==
    /\ events = OwedEvents(Len(calls))
    /\ \A i \in DOMAIN calls :
           LET c == calls[i]
               a == storage.articles[c.articleId]
           IN  /\ c.pc = "broadcastVerified"
                      => /\ a.status = "verified"
                         /\ a.truthScore = c.score
                         /\ c.article.status # "verified"
                         /\ c.hasAuthor
                                => \E k \in DOMAIN getTokenAwards(storage, a.authorId) :
                                       getTokenAwards(storage, a.authorId)[k].reason
                                           = "Article verified"
               /\ c.pc = "broadcastDisproven"
                      => /\ a.status = "disproven"
                         /\ a.truthScore = c.score
                         /\ c.article.status # "disproven"

\* A first evaluation disproved the pending article and sent its one
\* notification; a second one found nothing to change and sent none.
C26_Witness ==
    /\ Len(calls) = 2
    /\ \A i \in DOMAIN calls : calls[i].pc = "done"
    /\ calls[1].article.status = "pending"
    /\ calls[2].article.status = "disproven"
    /\ storage.articles[RaceArticleId].status = "disproven"
    /\ Len(events) = 1
    /\ events[1].type = "article_disproven"

\* C27: over recordings and evaluations of one article, its author, who
\* earns tokens in no other way here, holds at most one verified-article
\* reward: nothing, 10 or 15.
C27_AuthorRewardedAtMostOnce ==
    Tokens(storage, storage.articles[RaceArticleId].authorId)
        \in {0, CountPathAuthorReward, RegularReward, WhistleblowerReward}

\* C28: once every call has returned, the verificationCount of the article
\* the recordings were about equals the number of its verification records.
C28_NoLostIncrement ==
    (\A i \in DOMAIN calls : calls[i].pc = "done")
        => storage.articles[PendingArticleId].verificationCount
               = Cardinality(getVerificationsForArticle(storage, PendingArticleId))

\* C29: the store an accepted evaluate-truth request leaves has the
\* article's truthScore set, verified when it is at least 70 and disproven
\* when it is at most 30; and every truthScore that is set lies in 0..100.
C29_StatusAgreesWithScore ==
    /\ \A reqUser \in RequestUsers, id \in RequestArticleIds :
           Accepted(reqUser, id)
               => LET a == Evaluated(reqUser, id).articles[id]
                  IN  /\ a.truthScore # Undefined
                      /\ a.truthScore >= 70 => a.status = "verified"
                      /\ a.truthScore <= 30 => a.status = "disproven"
    /\ \A a \in ArticleIds :
           storage.articles[a].truthScore # Undefined
               => storage.articles[a].truthScore \in 0..100

\* Article 4 with 3 verified, 4 disproven and 3 pending records was
\* evaluated at exactly 30 and went from pending to disproven.
C29_Witness ==
    /\ storage.articles[4].truthScore = 30
    /\ storage.articles[4].status = "disproven"
    /\ CountWithStatus(storage, 4, "verified") = 3
    /\ CountWithStatus(storage, 4, "disproven") = 4
    /\ Len(events) = 1
    /\ events[1].type = "article_disproven"

\* C30: an accepted evaluation at a score of at least 70 of a not yet
\* verified article whose author exists, during which the token sink
\* throws: when it leaves the article verified, the author's award log has
\* one more entry, "Article verified", and truthTokens has grown by the
\* reward.
C30_AuthorPaidDespiteSinkFailure ==
    \A reqUser \in RequestUsers, id \in ArticleIds :
        (/\ Accepted(reqUser, id)
         /\ Score(id) >= 70
         /\ storage.articles[id].status # "verified"
         /\ storage.articles[id].authorId \in DOMAIN storage.users)
        => LET after  == verifyTruthSinkFailure(storage, events, reqUser, id,
                                                "awardTokens").storage
               author == storage.articles[id].authorId
               reward == IF storage.articles[id].isWhistleblower
                         THEN WhistleblowerReward ELSE RegularReward
               log    == getTokenAwards(after, author)
           IN  after.articles[id].status = "verified"
                   => /\ Len(log) = Len(getTokenAwards(storage, author)) + 1
                      /\ log[Len(log)] = [amount |-> reward,
                                          reason |-> "Article verified"]
                      /\ Tokens(after, author) = Tokens(storage, author) + reward

=============================================================================
